---- MODULE Spec2Model ----
(***************************************************************************)
(* Model of librarian's metadata normaliser and Meta wrapper               *)
(* (librarian/core/metadata.py), of the embedded archive index             *)
(* (librarian/core/backends/embedded/archive.py), of the setup gate        *)
(* (librarian/utils/setup.py) and of the disk-space cleanup handler        *)
(* (librarian/plugins/diskspace/plugin.py).                                *)
(*                                                                         *)
(* Python values are written as strings holding their repr ("None", "0",   *)
(* "False", "'core'"), so that values of different Python types can sit in *)
(* one dict.  A dict is a function whose DOMAIN is its key set.            *)
(***************************************************************************)
EXTENDS Integers, Sequences, FiniteSets, TLC

VARIABLES
    input,      \* the argument of the metadata call: raw bytes and their JSON document
    call,       \* the metadata function that ran ("none" before it ran)
    result,     \* what the call left behind: status, dict, failing key, steps taken
    zipballs,   \* the rows of table zipballs (content records)
    tags,       \* the rows of table tags
    taggings,   \* the rows of table taggings
    wrapped,    \* the Meta wrapper of the request being served
    last,       \* the archive call that ran last: its arguments and how it ended
    undo,       \* the tag mappings before an add_tags call that has just returned
    self_meta,      \* Meta.meta: the dict a Meta wrapper wraps
    constructed,    \* the dict as it was handed to Meta.__init__
    self_image,     \* Meta._image: the cover the wrapper remembers
    self_zip_path,  \* Meta.zip_path
    cover_dir,      \* the cover directory: the record's cover files, and its state
    zipfile,        \* the file at zip_path: its state and its member names
    access,         \* the wrapper attribute read or written last, and the outcome
    setup_path,     \* the path handed to setup_plugin
    setup_file,     \* the file at Setup.setup_file: its state and its JSON object
    setup_data,     \* Setup.data
    is_completed,   \* Setup.is_completed
    served,         \* the request the setup plugin saw last, and what it did
    saved,          \* how the last Setup.save ended, and whether one has returned
    handled         \* the cleanup request handled last, and what the handler did

metaVars == <<input, call, result>>

archiveVars == <<zipballs, tags, taggings, wrapped, last, undo>>

wrapperVars ==
    <<self_meta, constructed, self_image, self_zip_path, cover_dir, zipfile, access>>

setupVars == <<setup_path, setup_file, setup_data, is_completed, served, saved>>

vars ==
    <<input, call, result, zipballs, tags, taggings, wrapped, last, undo,
      self_meta, constructed, self_image, self_zip_path, cover_dir, zipfile,
      access, setup_path, setup_file, setup_data, is_completed, served, saved,
      handled>>

-----------------------------------------------------------------------------
(* Bounds of the model *)

\* inputs hold at most MaxPresent keys, or all keys but at most MaxOmitted
MaxPresent == 2
MaxOmitted == 2
\* add_meta_to_db is given at most MaxBatch records
MaxBatch == 1
\* a view count is incremented up to MaxViews
MaxViews == 1
\* a zip file holds at most MaxMembers members
MaxMembers == 2

-----------------------------------------------------------------------------
(* dict helpers *)

EmptyDict == [k \in {} |-> "None"]

Put(d, k, v) == [x \in (DOMAIN d) \cup {k} |-> IF x = k THEN v ELSE d[x]]

Pop(d, k) == [x \in (DOMAIN d) \ {k} |-> d[x]]

-----------------------------------------------------------------------------
(* The setup and cleanup state before any request *)

\* no file at Setup.setup_file
NoFile == [state |-> "absent", data |-> EmptyDict]

Served(locale, path, completed, kind, location) ==
    [locale |-> locale, path |-> path, completed |-> completed, kind |-> kind,
     location |-> location]

NoRequest == Served("", "", FALSE, "none", "")

NoSave == [ended |-> "none", once |-> FALSE]

Cleaned(act, sel, listed, called, hashes, errs, removed, resp, msg) ==
    [action |-> act, selection |-> sel, listed |-> listed, called |-> called,
     hashes |-> hashes, errors |-> errs, removed |-> removed,
     response |-> resp, message |-> msg]

NoCleanup == Cleaned("", {}, {}, FALSE, {}, {}, {}, "none", "")

-----------------------------------------------------------------------------
(* metadata.py: the field specification *)

None == "None"

\* the value standing for "the default is the function default_broadcast"
DefaultBroadcastFn == "<function default_broadcast>"

SpecKeys ==
    {"url", "title", "images", "timestamp", "keep_formatting", "is_partner",
     "is_sponsored", "archive", "publisher", "license", "language",
     "multipage", "entry_point", "broadcast", "keywords", "md5", "size",
     "updated"}

\* `default` defaults to None, `aliases` to [], `required` and `auto` to False
META_SPECIFICATION ==
    [k \in SpecKeys |->
        [required |-> k \in {"url", "title", "timestamp", "license"},
         auto     |-> k \in {"md5", "size", "updated"},
         aliases  |-> CASE k = "publisher"   -> <<"partner">>
                        [] k = "entry_point" -> <<"index">>
                        [] OTHER             -> <<>>,
         default  |-> CASE k = "images"          -> "0"
                        [] k = "keep_formatting" -> "False"
                        [] k = "is_partner"      -> "False"
                        [] k = "is_sponsored"    -> "False"
                        [] k = "archive"         -> "'core'"
                        [] k = "publisher"       -> "''"
                        [] k = "language"        -> "''"
                        [] k = "multipage"       -> "False"
                        [] k = "entry_point"     -> "'index.html'"
                        [] k = "broadcast"       -> DefaultBroadcastFn
                        [] k = "keywords"        -> "''"
                        [] OTHER                 -> None]]

STANDARD_FIELDS == {k \in SpecKeys : ~META_SPECIFICATION[k].auto}

REQUIRED_KEYS == {k \in SpecKeys : META_SPECIFICATION[k].required}

\* The order in which `for key in STANDARD_FIELDS` visits the keys is the
\* dict's hash order, which the source does not fix: the model runs every
\* loop under each of these orders.
SourceOrder ==
    <<"url", "title", "images", "timestamp", "keep_formatting", "is_partner",
      "is_sponsored", "archive", "publisher", "license", "language",
      "multipage", "entry_point", "broadcast", "keywords">>

Reverse(s) == [i \in 1..Len(s) |-> s[Len(s) + 1 - i]]

IterationOrders == {SourceOrder, Reverse(SourceOrder)}

-----------------------------------------------------------------------------
(* metadata.py: dateutil.parser.parse(...).date() *)

ParseFailure == "<ValueError>"

\* what dateutil makes of the timestamps the model feeds in
ParseDate(ts) ==
    CASE ts = "'2014-08-10 19:59:19 UTC'" -> "date(2014, 8, 10)"
      [] ts = "'2015-03-01 07:00:00 UTC'" -> "date(2015, 3, 1)"
      [] OTHER                            -> ParseFailure

Raised == "<raised>"

\* default_broadcast(key, meta): meta['timestamp'] raises KeyError when the
\* key is missing, and the parser raises on anything that is no date
default_broadcast(key, meta) ==
    IF "timestamp" \notin DOMAIN meta THEN Raised
    ELSE IF ParseDate(meta["timestamp"]) = ParseFailure THEN Raised
    ELSE ParseDate(meta["timestamp"])

\* get_default_value without the callable(default) branch
get_default_value_uncalled(key, meta) == META_SPECIFICATION[key].default

get_default_value(key, meta) ==
    LET default == META_SPECIFICATION[key].default
    IN  IF default = DefaultBroadcastFn THEN default_broadcast(key, meta)
        ELSE default

get_aliases_for(key) == META_SPECIFICATION[key].aliases

is_required(key) == META_SPECIFICATION[key].required

-----------------------------------------------------------------------------
(* metadata.py: the normalisation steps *)

RECURSIVE add_missing_keys_from_overwriting(_, _, _)
\* the loop without `if key not in meta`: every standard field is set to
\* its default, present or not
add_missing_keys_from_overwriting(meta, order, i) ==
    IF i > Len(order) THEN [meta |-> meta, raised |-> FALSE]
    ELSE LET key == order[i]
             v   == get_default_value(key, meta)
         IN  IF v = Raised
             THEN [meta |-> meta, raised |-> TRUE]
             ELSE add_missing_keys_from_overwriting(Put(meta, key, v), order,
                                                    i + 1)

RECURSIVE add_missing_keys_from(_, _, _)
\* the loop of add_missing_keys from position i of the iteration order on;
\* a default that raises ends the loop with the dict as it is by then
add_missing_keys_from(meta, order, i) ==
    IF i > Len(order) THEN [meta |-> meta, raised |-> FALSE]
    ELSE LET key == order[i]
         IN  IF key \in DOMAIN meta
             THEN add_missing_keys_from(meta, order, i + 1)
             ELSE LET v == get_default_value(key, meta)
                  IN  IF v = Raised
                      THEN [meta |-> meta, raised |-> TRUE]
                      ELSE add_missing_keys_from(Put(meta, key, v), order, i + 1)

add_missing_keys(meta, order) == add_missing_keys_from(meta, order, 1)

RECURSIVE replace_aliases_of_kept(_, _, _, _)
\* the inner loop with meta[key] = meta[alias] in place of meta.pop(alias)
replace_aliases_of_kept(meta, key, aliases, j) ==
    IF j > Len(aliases) THEN meta
    ELSE LET alias == aliases[j]
         IN  IF alias \in DOMAIN meta
             THEN replace_aliases_of_kept(Put(meta, key, meta[alias]),
                                          key, aliases, j + 1)
             ELSE replace_aliases_of_kept(meta, key, aliases, j + 1)

RECURSIVE replace_aliases_of(_, _, _, _)
\* the inner loop `for alias in get_aliases_for(key)` from position j on
replace_aliases_of(meta, key, aliases, j) ==
    IF j > Len(aliases) THEN meta
    ELSE LET alias == aliases[j]
         IN  IF alias \in DOMAIN meta
             THEN replace_aliases_of(Put(Pop(meta, alias), key, meta[alias]),
                                     key, aliases, j + 1)
             ELSE replace_aliases_of(meta, key, aliases, j + 1)

RECURSIVE replace_aliases_from_unconditional(_, _, _)
\* the outer loop without `if key not in meta`: an alias replaces the
\* canonical key also when the canonical key is there
replace_aliases_from_unconditional(meta, order, i) ==
    IF i > Len(order) THEN meta
    ELSE replace_aliases_from_unconditional(
             replace_aliases_of(meta, order[i], get_aliases_for(order[i]), 1),
             order, i + 1)

RECURSIVE replace_aliases_from(_, _, _)
replace_aliases_from(meta, order, i) ==
    IF i > Len(order) THEN meta
    ELSE LET key == order[i]
         IN  IF key \notin DOMAIN meta
             THEN replace_aliases_from(
                      replace_aliases_of(meta, key, get_aliases_for(key), 1),
                      order, i + 1)
             ELSE replace_aliases_from(meta, order, i + 1)

replace_aliases(meta, order) == replace_aliases_from(meta, order, 1)

clean_keys(meta) ==
    LET valid_keys == STANDARD_FIELDS
    IN  [k \in {x \in DOMAIN meta : x \in valid_keys} |-> meta[k]]

RECURSIVE first_missing_required(_, _, _)
\* the key the loop of convert_json raises FormatError for, "" when none
first_missing_required(meta, order, i) ==
    IF i > Len(order) THEN ""
    ELSE IF order[i] \notin DOMAIN meta /\ is_required(order[i]) THEN order[i]
    ELSE first_missing_required(meta, order, i + 1)

Outcome(status, meta, key, steps) ==
    [status |-> status, meta |-> meta, key |-> key, steps |-> steps]

\* str(text) of Python 2, the interpreter the tests run under (they call
\* ''.decode): it encodes the unicode text with the ascii codec and raises
\* UnicodeEncodeError on any character outside ASCII
str_of(raw) == IF raw.ascii THEN "text" ELSE "UnicodeEncodeError"

\* convert_json(meta): raw.utf8 says whether the bytes decode as UTF-8,
\* raw.ascii whether the decoded text is pure ASCII, raw.json whether it is
\* valid JSON, and raw.doc is the object json.loads returns
convert_json(raw, order) ==
    IF ~raw.utf8
    THEN Outcome("DecodeError", EmptyDict, "", <<"decode">>)
    ELSE IF str_of(raw) = "UnicodeEncodeError"
    THEN Outcome("UnicodeEncodeError", EmptyDict, "", <<"decode", "str">>)
    ELSE IF ~raw.json
    THEN Outcome("DecodeError", EmptyDict, "", <<"decode", "str", "loads">>)
    ELSE LET aliased == replace_aliases(raw.doc, order)
             missing == first_missing_required(aliased, order, 1)
             filled  == add_missing_keys(aliased, order)
         IN  IF missing # ""
             THEN Outcome("FormatError", EmptyDict, missing,
                          <<"decode", "str", "loads", "replace_aliases",
                            "required">>)
             ELSE IF filled.raised
             THEN Outcome("DecodeError", EmptyDict, "",
                          <<"decode", "str", "loads", "replace_aliases",
                            "required", "add_missing_keys">>)
             ELSE Outcome("ok", filled.meta, "",
                          <<"decode", "str", "loads", "replace_aliases",
                            "required", "add_missing_keys">>)

-----------------------------------------------------------------------------
(* The inputs of the metadata calls *)

\* keys an input document may hold: the standard fields, the two legacy
\* aliases, an auto field and a key the specification does not know
InputKeys == STANDARD_FIELDS \cup {"partner", "index", "md5", "foo"}

Timestamps ==
    {"'2014-08-10 19:59:19 UTC'", "'2015-03-01 07:00:00 UTC'", "'not a date'"}

InputValue(k) == "'in-" \o k \o "'"

RECURSIVE KeySets(_)
\* the sets of at most n input keys
KeySets(n) ==
    IF n = 0 THEN {{}}
    ELSE KeySets(n - 1) \cup {s \cup {k} : s \in KeySets(n - 1), k \in InputKeys}

InputKeySets ==
    KeySets(MaxPresent)
        \cup {REQUIRED_KEYS \cup s : s \in KeySets(MaxPresent)}
        \cup {InputKeys \ s : s \in KeySets(MaxOmitted)}

InputDocs ==
    {[k \in s |-> IF k = "timestamp" THEN ts ELSE InputValue(k)] :
        s \in InputKeySets, ts \in Timestamps}

RawInputs ==
    {[utf8 |-> FALSE, ascii |-> FALSE, json |-> FALSE, doc |-> EmptyDict]}
        \cup {[utf8 |-> TRUE, ascii |-> a, json |-> FALSE, doc |-> EmptyDict] :
                a \in BOOLEAN}
        \cup {[utf8 |-> TRUE, ascii |-> a, json |-> TRUE, doc |-> d] :
                a \in BOOLEAN, d \in InputDocs}

\* an input that is a dict already, for the functions that take a dict
IsDict(raw) == raw.utf8 /\ raw.ascii /\ raw.json

-----------------------------------------------------------------------------
(* The metadata calls as actions *)

\* a metadata call about to be made, with the archive left empty
MetaInit ==
    /\ input \in RawInputs
    /\ call = "none"
    /\ result = Outcome("none", EmptyDict, "", <<>>)
    /\ zipballs = {}
    /\ tags = {}
    /\ taggings = {}
    /\ wrapped = [md5 |-> "", tags |-> EmptyDict]
    /\ last = [op |-> "none", md5 |-> "", metadata |-> <<>>, replaced |-> {},
               names |-> <<>>, fail |-> 0, error |-> "", value |-> 0,
               existing |-> {}]
    /\ undo = [armed |-> FALSE, names |-> <<>>,
               meta |-> [md5 |-> "", tags |-> EmptyDict],
               column |-> [null |-> TRUE, text |-> EmptyDict], taggings |-> {}]
    /\ self_meta = EmptyDict
    /\ constructed = EmptyDict
    /\ self_image = "None"
    /\ self_zip_path = "None"
    /\ cover_dir = [files |-> {}, state |-> "ok"]
    /\ zipfile = [state |-> "missing", names |-> <<>>]
    /\ access = [attr |-> "none", value |-> "None", error |-> "", steps |-> <<>>]
    /\ setup_path = "/en/setup/"
    /\ setup_file = NoFile
    /\ setup_data = EmptyDict
    /\ is_completed = FALSE
    /\ served = NoRequest
    /\ saved = NoSave
    /\ handled = NoCleanup

ConvertJson ==
    /\ call = "none"
    /\ \E order \in IterationOrders :
          result' = convert_json(input, order)
    /\ call' = "convert_json"
    /\ UNCHANGED <<input, archiveVars, wrapperVars, setupVars, handled>>

ReplaceAliases ==
    /\ call = "none"
    /\ IsDict(input)
    /\ \E order \in IterationOrders :
          result' = Outcome("ok", replace_aliases(input.doc, order), "",
                            <<"replace_aliases">>)
    /\ call' = "replace_aliases"
    /\ UNCHANGED <<input, archiveVars, wrapperVars, setupVars, handled>>

AddMissingKeys ==
    /\ call = "none"
    /\ IsDict(input)
    /\ \E order \in IterationOrders :
          LET r == add_missing_keys(input.doc, order)
          IN  result' = Outcome(IF r.raised THEN "raised" ELSE "ok", r.meta, "",
                                <<"add_missing_keys">>)
    /\ call' = "add_missing_keys"
    /\ UNCHANGED <<input, archiveVars, wrapperVars, setupVars, handled>>

CleanKeys ==
    /\ call = "none"
    /\ IsDict(input)
    /\ result' = Outcome("ok", clean_keys(input.doc), "", <<"clean_keys">>)
    /\ call' = "clean_keys"
    /\ UNCHANGED <<input, archiveVars, wrapperVars, setupVars, handled>>

MetaNext == ConvertJson \/ ReplaceAliases \/ AddMissingKeys \/ CleanKeys

-----------------------------------------------------------------------------
(* archive.py: the tables *)

Md5s == {"m1", "m2"}

Titles == {"t1", "t2"}

TagNames == {"x", "y"}

\* a column holding no value
Null == [null |-> TRUE, text |-> EmptyDict]

\* json.dumps(tag map), the text stored in column zipballs.tags
Dumps(map) == [null |-> FALSE, text |-> map]

\* json.loads(meta.get('tags') or '{}') of Meta.__init__
LoadTags(column) == IF column.null THEN EmptyDict ELSE column.text

\* the row REPLACE INTO zipballs (INSERT_KEYS) makes of a metadata record:
\* INSERT_KEYS holds neither tags nor views, which take the column defaults;
\* title stands for the data columns of INSERT_KEYS
NewRow(record) ==
    [md5 |-> record.md5, title |-> record.title, tags |-> Null, views |-> 0]

\* rows that collide with a new row on the primary key of zipballs
Conflicts(row, record) == row.md5 = record.md5

\* INSERT INTO zipballs without conflict resolution
InsertOnly(rows, record) == rows \cup {NewRow(record)}

\* db.Replace('zipballs', cols=INSERT_KEYS) executed for one record
Replace(rows, record) ==
    {r \in rows : ~Conflicts(r, record)} \cup {NewRow(record)}

RECURSIVE ReplaceMany(_, _, _)
\* executemany(q, metadata), record by record from position i on
ReplaceMany(rows, metadata, i) ==
    IF i > Len(metadata) THEN rows
    ELSE ReplaceMany(Replace(rows, metadata[i]), metadata, i + 1)

\* db.Delete('zipballs', where=sqlin('md5', replaced))
DeleteZipballs(rows, replaced) == {r \in rows : r.md5 \notin replaced}

\* db.Update('zipballs', tags=':tags', where='md5 = :md5')
UpdateTags(rows, md5, column) ==
    {IF r.md5 = md5 THEN [r EXCEPT !.tags = column] ELSE r : r \in rows}

\* a transaction block: commit when the block ends, roll back to the state
\* at its start when a statement of the block raises
Transaction(before, working, raised) == IF raised THEN before ELSE working

Database(z, t, g) == [zipballs |-> z, tags |-> t, taggings |-> g]

\* the result of an archive call: the database it leaves, the exception it
\* raised ("" when it returned) and the value it returned
Returned(db, error, value) == [db |-> db, error |-> error, value |-> value]

-----------------------------------------------------------------------------
(* archive.py: add_meta_to_db and add_view *)

\* add_meta_to_db(metadata, replaced) with the DELETE outside the transaction
add_meta_to_db_delete_outside(db, metadata, replaced, fail) ==
    LET inserted == [db EXCEPT !.zipballs = ReplaceMany(@, metadata, 1)]
        deleted  == [inserted EXCEPT !.zipballs = DeleteZipballs(@, replaced)]
    IN  IF fail = 1 THEN Returned(Transaction(db, db, TRUE), "DbError", 0)
        ELSE IF fail = 2 THEN Returned(inserted, "DbError", 0)
        ELSE Returned(deleted, "", Len(metadata))

\* add_meta_to_db(metadata, replaced); fail names the statement that raises:
\* 1 the bulk REPLACE, 2 the bulk DELETE (it runs when replaced is not
\* empty), 0 none.  Both statements are inside one transaction block.
\* The DELETE is handed to executemany with the replaced list as its
\* parameter sets; whether the database driver accepts that binding is not
\* decided by the source, so the statement either deletes the replaced md5s
\* or raises.
add_meta_to_db(db, metadata, replaced, fail) ==
    LET inserted == [db EXCEPT !.zipballs = ReplaceMany(@, metadata, 1)]
        deleted  == [inserted EXCEPT !.zipballs = DeleteZipballs(@, replaced)]
        working  == IF fail = 1 THEN db
                    ELSE IF fail = 2 THEN inserted
                    ELSE deleted
    IN  Returned(Transaction(db, working, fail # 0),
                 IF fail # 0 THEN "DbError" ELSE "",
                 IF fail # 0 THEN 0 ELSE Len(metadata))

\* add_view(md5) without the assertion on the row count
add_view_unchecked(db, md5) ==
    LET rowcount == Cardinality({r \in db.zipballs : r.md5 = md5})
        updated  == {IF r.md5 = md5 THEN [r EXCEPT !.views = @ + 1] ELSE r :
                        r \in db.zipballs}
    IN  Returned([db EXCEPT !.zipballs = updated], "", rowcount)

\* add_view(md5) with an UPDATE that has no WHERE clause
add_view_every_row(db, md5) ==
    LET rowcount == Cardinality({r \in db.zipballs : r.md5 = md5})
        updated  == {[r EXCEPT !.views = @ + 1] : r \in db.zipballs}
    IN  Returned([db EXCEPT !.zipballs = updated],
                 IF rowcount # 1 THEN "AssertionError" ELSE "",
                 IF rowcount # 1 THEN 0 ELSE rowcount)

\* add_view(md5): the UPDATE runs, then the assertion on its row count
add_view(db, md5) ==
    LET rowcount == Cardinality({r \in db.zipballs : r.md5 = md5})
        updated  == {IF r.md5 = md5 THEN [r EXCEPT !.views = @ + 1] ELSE r :
                        r \in db.zipballs}
    IN  Returned([db EXCEPT !.zipballs = updated],
                 IF rowcount # 1 THEN "AssertionError" ELSE "",
                 IF rowcount # 1 THEN 0 ELSE rowcount)

-----------------------------------------------------------------------------
(* archive.py: tags *)

\* the Meta wrapper: the record's md5 and the tag map loaded from it
Wrapper(md5, map) == [md5 |-> md5, tags |-> map]

NoMeta == Wrapper("", EmptyDict)

Names(seq) == {seq[i] : i \in 1..Len(seq)}

MaxOf(S) == CHOOSE n \in S : \A m \in S : m <= n

\* the id an INTEGER PRIMARY KEY column gives the next row
NextTagId(rows) == IF rows = {} THEN 1 ELSE MaxOf({r.tag_id : r \in rows}) + 1

\* INSERT INTO tags (name) of a name the table holds already leaves the
\* table alone: tags are unique by name
InsertTag(rows, name) ==
    IF \E r \in rows : r.name = name THEN rows
    ELSE rows \cup {[tag_id |-> NextTagId(rows), name |-> name]}

RECURSIVE InsertTags_duplicating(_, _, _)
\* executemany of an INSERT INTO tags that adds a row for every name given,
\* also for a name the table holds
InsertTags_duplicating(rows, names, i) ==
    IF i > Len(names) THEN rows
    ELSE InsertTags_duplicating(
             rows \cup {[tag_id |-> NextTagId(rows), name |-> names[i]]},
             names, i + 1)

RECURSIVE InsertTags(_, _, _)
\* executemany(q, ({'name': t} for t in tags)) from position i on
InsertTags(rows, names, i) ==
    IF i > Len(names) THEN rows
    ELSE InsertTags(InsertTag(rows, names[i]), names, i + 1)

\* the result of add_tags and remove_tags: the wrapper is an argument they
\* change in place
TagResult(db, wrapper, error) == [db |-> db, meta |-> wrapper, error |-> error]

DictUpdate(d, e) ==
    [k \in (DOMAIN d) \cup (DOMAIN e) |-> IF k \in DOMAIN e THEN e[k] ELSE d[k]]

\* add_tags(meta, tags) with all its statements in one transaction
add_tags_one_transaction(db, wrapper, names, fail) ==
    IF names = <<>> THEN TagResult(db, wrapper, "")
    ELSE LET ensured   == [db EXCEPT !.tags = InsertTags(@, names, 1)]
             selected  == {r \in ensured.tags : r.name \in Names(names)}
             tags_dict == [n \in {r.name : r \in selected} |->
                              (CHOOSE r \in selected : r.name = n).tag_id]
             pairs     == {[tag_id |-> r.tag_id, md5 |-> wrapper.md5] :
                              r \in selected}
             updated   == [wrapper EXCEPT !.tags = DictUpdate(@, tags_dict)]
             tagged    == [ensured EXCEPT !.taggings = @ \cup pairs]
             persisted == [tagged EXCEPT !.zipballs =
                              UpdateTags(@, wrapper.md5, Dumps(updated.tags))]
         IN  IF fail = 1 THEN TagResult(db, wrapper, "DbError")
             ELSE TagResult(Transaction(db, persisted, fail # 0), updated,
                            IF fail # 0 THEN "DbError" ELSE "")

\* add_tags(meta, tags); fail names the statement that raises: 1 the INSERT
\* INTO tags (first transaction), 2 the INSERT INTO taggings, 3 the UPDATE of
\* zipballs (both in the second transaction), 0 none
add_tags(db, wrapper, names, fail) ==
    IF names = <<>> THEN TagResult(db, wrapper, "")
    ELSE LET ensured   == Transaction(db,
                              IF fail = 1 THEN db
                              ELSE [db EXCEPT !.tags = InsertTags(@, names, 1)],
                              fail = 1)
             selected  == {r \in ensured.tags : r.name \in Names(names)}
             tags_dict == [n \in {r.name : r \in selected} |->
                              (CHOOSE r \in selected : r.name = n).tag_id]
             pairs     == {[tag_id |-> r.tag_id, md5 |-> wrapper.md5] :
                              r \in selected}
             updated   == [wrapper EXCEPT !.tags = DictUpdate(@, tags_dict)]
             tagged    == [ensured EXCEPT !.taggings = @ \cup pairs]
             persisted == [tagged EXCEPT !.zipballs =
                              UpdateTags(@, wrapper.md5, Dumps(updated.tags))]
             working   == IF fail = 2 THEN ensured
                          ELSE IF fail = 3 THEN tagged
                          ELSE persisted
         IN  IF fail = 1 THEN TagResult(ensured, wrapper, "DbError")
             ELSE TagResult(Transaction(ensured, working, fail # 0), updated,
                            IF fail # 0 THEN "DbError" ELSE "")

\* remove_tags(meta, tags) that deletes the associations of every tag of the
\* record, not only those of the tags removed
remove_tags_all_taggings(db, wrapper, names, fail) ==
    IF names = <<>> THEN TagResult(db, wrapper, "")
    ELSE IF \E n \in Names(names) : n \notin DOMAIN wrapper.tags
    THEN TagResult(db, wrapper, "KeyError")
    ELSE LET remaining == [n \in (DOMAIN wrapper.tags) \ Names(names) |->
                              wrapper.tags[n]]
             updated   == [wrapper EXCEPT !.tags = remaining]
             untagged  == [db EXCEPT !.taggings =
                              {g \in @ : g.md5 # wrapper.md5}]
             persisted == [untagged EXCEPT !.zipballs =
                              UpdateTags(@, wrapper.md5, Dumps(remaining))]
         IN  TagResult(Transaction(db, persisted, fail # 0), updated,
                       IF fail # 0 THEN "DbError" ELSE "")

\* remove_tags(meta, tags) that looks the names up with meta.tags.get and
\* removes those it finds, passing over a name the map does not hold
remove_tags_known_only(db, wrapper, names, fail) ==
    IF names = <<>> THEN TagResult(db, wrapper, "")
    ELSE LET known     == Names(names) \cap DOMAIN wrapper.tags
             tag_ids   == {wrapper.tags[n] : n \in known}
             remaining == [n \in (DOMAIN wrapper.tags) \ known |->
                              wrapper.tags[n]]
             updated   == [wrapper EXCEPT !.tags = remaining]
             untagged  == [db EXCEPT !.taggings =
                              {g \in @ : ~(g.md5 = wrapper.md5
                                           /\ g.tag_id \in tag_ids)}]
             persisted == [untagged EXCEPT !.zipballs =
                              UpdateTags(@, wrapper.md5, Dumps(remaining))]
         IN  TagResult(Transaction(db, persisted, fail # 0), updated,
                       IF fail # 0 THEN "DbError" ELSE "")

\* remove_tags(meta, tags); fail names the statement that raises: 1 the
\* DELETE FROM taggings, 2 the UPDATE of zipballs (one transaction), 0 none
remove_tags(db, wrapper, names, fail) ==
    IF names = <<>> THEN TagResult(db, wrapper, "")
    ELSE IF \E n \in Names(names) : n \notin DOMAIN wrapper.tags
    THEN TagResult(db, wrapper, "KeyError")
    ELSE LET tag_ids   == {wrapper.tags[n] : n \in Names(names)}
             remaining == [n \in (DOMAIN wrapper.tags) \ Names(names) |->
                              wrapper.tags[n]]
             updated   == [wrapper EXCEPT !.tags = remaining]
             untagged  == [db EXCEPT !.taggings =
                              {g \in @ : ~(g.md5 = wrapper.md5
                                           /\ g.tag_id \in tag_ids)}]
             persisted == [untagged EXCEPT !.zipballs =
                              UpdateTags(@, wrapper.md5, Dumps(remaining))]
             working   == IF fail = 1 THEN db
                          ELSE IF fail = 2 THEN untagged
                          ELSE persisted
         IN  TagResult(Transaction(db, working, fail # 0), updated,
                       IF fail # 0 THEN "DbError" ELSE "")

-----------------------------------------------------------------------------
(* The archive calls as actions *)

Call(op, md5, metadata, replaced, names, fail, error, value, existing) ==
    [op |-> op, md5 |-> md5, metadata |-> metadata, replaced |-> replaced,
     names |-> names, fail |-> fail, error |-> error, value |-> value,
     existing |-> existing]

NoCall == Call("none", "", <<>>, {}, <<>>, 0, "", 0, {})

NoUndo ==
    [armed |-> FALSE, names |-> <<>>, meta |-> NoMeta, column |-> Null,
     taggings |-> {}]

\* the metadata records handed to add_meta_to_db
Records == [md5 : Md5s, title : Titles]

Batches == UNION {[1..n -> Records] : n \in 0..MaxBatch}

\* the tag lists handed to add_tags and remove_tags: no name twice
TagLists ==
    {names \in UNION {[1..n -> TagNames] : n \in 0..Cardinality(TagNames)} :
        Cardinality(Names(names)) = Len(names)}

\* column tags of the record md5
PersistedColumn(rows, md5) ==
    IF \E r \in rows : r.md5 = md5
    THEN (CHOOSE r \in rows : r.md5 = md5).tags
    ELSE Null

\* the empty database, with no metadata call made
ArchiveInit ==
    /\ input = [utf8 |-> FALSE, ascii |-> FALSE, json |-> FALSE, doc |-> EmptyDict]
    /\ call = "none"
    /\ result = Outcome("none", EmptyDict, "", <<>>)
    /\ zipballs = {}
    /\ tags = {}
    /\ taggings = {}
    /\ wrapped = NoMeta
    /\ last = NoCall
    /\ undo = NoUndo
    /\ self_meta = EmptyDict
    /\ constructed = EmptyDict
    /\ self_image = "None"
    /\ self_zip_path = "None"
    /\ cover_dir = [files |-> {}, state |-> "ok"]
    /\ zipfile = [state |-> "missing", names |-> <<>>]
    /\ access = [attr |-> "none", value |-> "None", error |-> "", steps |-> <<>>]
    /\ setup_path = "/en/setup/"
    /\ setup_file = NoFile
    /\ setup_data = EmptyDict
    /\ is_completed = FALSE
    /\ served = NoRequest
    /\ saved = NoSave
    /\ handled = NoCleanup

\* a request that indexes content: add_meta_to_db on one of the given
\* batches and replaced lists, with one of the given failures
AddMetaToDbOf(batches, replacements, failures) ==
    \E metadata \in batches, replaced \in replacements, fail \in failures :
        /\ fail = 2 => replaced # {}
        /\ LET r == add_meta_to_db(Database(zipballs, tags, taggings),
                                   metadata, replaced, fail)
           IN  /\ zipballs' = r.db.zipballs
               /\ tags' = r.db.tags
               /\ taggings' = r.db.taggings
               /\ last' = Call("add_meta_to_db", "", metadata, replaced, <<>>,
                               fail, r.error, r.value,
                               {metadata[i].md5 : i \in
                                   {j \in 1..Len(metadata) :
                                       \E row \in zipballs :
                                           /\ row.md5 = metadata[j].md5
                                           /\ row.title # metadata[j].title}})
        /\ wrapped' = NoMeta
        /\ undo' = NoUndo
        /\ UNCHANGED <<metaVars, wrapperVars, setupVars, handled>>

AddMetaToDb == AddMetaToDbOf(Batches, SUBSET Md5s, 0..2)

\* indexing one record at a time, under its first title, replacing none
IndexContent ==
    AddMetaToDbOf({<<[md5 |-> m, title |-> "t1"]>> : m \in Md5s}, {{}}, {0})

\* a request that counts a view of one of the given md5s
AddViewOf(md5s) ==
    \E md5 \in md5s :
        /\ \A row \in zipballs : row.md5 = md5 => row.views < MaxViews
        /\ LET r == add_view(Database(zipballs, tags, taggings), md5)
           IN  /\ zipballs' = r.db.zipballs
               /\ tags' = r.db.tags
               /\ taggings' = r.db.taggings
               /\ last' = Call("add_view", md5, <<>>, {}, <<>>, 0, r.error,
                               r.value, {})
        /\ wrapped' = NoMeta
        /\ undo' = NoUndo
        /\ UNCHANGED <<metaVars, wrapperVars, setupVars, handled>>

AddView == AddViewOf(Md5s)

\* with_content: a request for a content record loads the record and wraps it
WithContent ==
    \E md5 \in Md5s :
        /\ \E row \in zipballs : row.md5 = md5
        /\ wrapped' = Wrapper(md5, LoadTags(PersistedColumn(zipballs, md5)))
        /\ last' = Call("with_content", md5, <<>>, {}, <<>>, 0, "", 0, {})
        /\ undo' = NoUndo
        /\ UNCHANGED <<zipballs, tags, taggings, metaVars, wrapperVars,
                     setupVars, handled>>

\* the request that loaded the wrapper is still being served: an exception
\* a call raises propagates out of the request's handler and ends it
Serving == wrapped # NoMeta /\ last.error = ""

\* a request that tags the content it loaded, with one of the given failures
AddTagsOf(failures) ==
    \E names \in TagLists, fail \in failures :
        /\ Serving
        /\ names = <<>> => fail = 0
        /\ LET r == add_tags(Database(zipballs, tags, taggings), wrapped, names, fail)
           IN  /\ zipballs' = r.db.zipballs
               /\ tags' = r.db.tags
               /\ taggings' = r.db.taggings
               /\ wrapped' = r.meta
               /\ last' = Call("add_tags", wrapped.md5, <<>>, {}, names, fail,
                               r.error, 0, {})
               /\ undo' = IF r.error = ""
                          THEN [armed |-> TRUE, names |-> names, meta |-> wrapped,
                                column |-> PersistedColumn(zipballs, wrapped.md5),
                                taggings |-> {g \in taggings : g.md5 = wrapped.md5}]
                          ELSE NoUndo
        /\ UNCHANGED <<metaVars, wrapperVars, setupVars, handled>>

AddTags == AddTagsOf(0..3)

\* a request that untags the content it loaded, with one of the given failures
RemoveTagsOf(failures) ==
    \E names \in TagLists, fail \in failures :
        /\ Serving
        /\ (names = <<>> \/ \E n \in Names(names) : n \notin DOMAIN wrapped.tags)
              => fail = 0
        /\ LET r == remove_tags(Database(zipballs, tags, taggings), wrapped, names,
                                fail)
           IN  /\ zipballs' = r.db.zipballs
               /\ tags' = r.db.tags
               /\ taggings' = r.db.taggings
               /\ wrapped' = r.meta
               /\ last' = Call("remove_tags", wrapped.md5, <<>>, {}, names, fail,
                               r.error, 0, {})
               /\ undo' = IF /\ r.error = ""
                             /\ undo.armed
                             /\ last.op = "add_tags"
                             /\ Names(names) = Names(undo.names)
                          THEN undo
                          ELSE NoUndo
        /\ UNCHANGED <<metaVars, wrapperVars, setupVars, handled>>

RemoveTags == RemoveTagsOf(0..2)

ArchiveNext == AddMetaToDb \/ AddView \/ WithContent

TagsNext == IndexContent \/ WithContent \/ AddTags \/ RemoveTags

-----------------------------------------------------------------------------
(* archive.py: removing content, and the index under all its operations *)

\* remove_meta_from_db(hashes) that also deletes the tags no association is
\* left for
remove_meta_from_db_dropping_tags(db, hashes, fail) ==
    LET removed  == [db EXCEPT !.zipballs = DeleteZipballs(@, hashes)]
        untagged == [removed EXCEPT !.taggings = {g \in @ : g.md5 \notin hashes}]
        cleaned  == [untagged EXCEPT !.tags =
                        {t \in @ : \E g \in untagged.taggings :
                                      g.tag_id = t.tag_id}]
        rowcount == Cardinality({r \in db.zipballs : r.md5 \in hashes})
    IN  Returned(Transaction(db, cleaned, fail # 0),
                 IF fail # 0 THEN "DbError" ELSE "",
                 IF fail # 0 THEN 0 ELSE rowcount)

\* remove_meta_from_db(hashes); fail names the statement that raises: 1 the
\* DELETE FROM zipballs, 2 the DELETE FROM taggings (one transaction), 0 none
remove_meta_from_db(db, hashes, fail) ==
    LET removed  == [db EXCEPT !.zipballs = DeleteZipballs(@, hashes)]
        untagged == [removed EXCEPT !.taggings = {g \in @ : g.md5 \notin hashes}]
        working  == IF fail = 1 THEN db
                    ELSE IF fail = 2 THEN removed
                    ELSE untagged
        rowcount == Cardinality({r \in db.zipballs : r.md5 \in hashes})
    IN  Returned(Transaction(db, working, fail # 0),
                 IF fail # 0 THEN "DbError" ELSE "",
                 IF fail # 0 THEN 0 ELSE rowcount)

\* reload_data(): the records of the content found on disk are indexed again
reload_data(db, found) == add_meta_to_db(db, found, {}, 0)

\* clear_and_reload(): DELETE FROM zipballs, then reload_data()
clear_and_reload(db, found) ==
    reload_data([db EXCEPT !.zipballs = {}], found)

\* the content reload_data can find on disk: each md5 at most once, in the
\* order of the md5s
ContentOnDisk ==
    {<<>>, <<[md5 |-> "m1", title |-> "t1"]>>, <<[md5 |-> "m2", title |-> "t1"]>>,
     <<[md5 |-> "m1", title |-> "t1"], [md5 |-> "m2", title |-> "t1"]>>}

\* a request that removes content
RemoveMetaFromDb ==
    \E hashes \in (SUBSET Md5s) \ {{}}, fail \in 0..2 :
        /\ LET r == remove_meta_from_db(Database(zipballs, tags, taggings),
                                        hashes, fail)
           IN  /\ zipballs' = r.db.zipballs
               /\ tags' = r.db.tags
               /\ taggings' = r.db.taggings
               /\ last' = Call("remove_meta_from_db", "", <<>>, hashes, <<>>,
                               fail, r.error, r.value, {})
        /\ wrapped' = NoMeta
        /\ undo' = NoUndo
        /\ UNCHANGED <<metaVars, wrapperVars, setupVars, handled>>

\* a request that refills the index from the content on disk
ClearAndReload ==
    \E found \in ContentOnDisk :
        /\ LET r == clear_and_reload(Database(zipballs, tags, taggings), found)
           IN  /\ zipballs' = r.db.zipballs
               /\ tags' = r.db.tags
               /\ taggings' = r.db.taggings
               /\ last' = Call("clear_and_reload", "", found, {}, <<>>, 0,
                               r.error, r.value, {})
        /\ wrapped' = NoMeta
        /\ undo' = NoUndo
        /\ UNCHANGED <<metaVars, wrapperVars, setupVars, handled>>

\* indexing one record at a time and naming at most one record it replaces
ReindexContent ==
    AddMetaToDbOf({<<[md5 |-> m, title |-> "t1"]>> : m \in Md5s},
                  {{}} \cup {{m} : m \in Md5s}, {0})

\* tagging and untagging with no statement failing
TagContent == AddTagsOf({0})

UntagContent == RemoveTagsOf({0})

\* counting the views of the first record
ViewContent == AddViewOf({"m1"})

IndexNext ==
    \/ ReindexContent
    \/ RemoveMetaFromDb
    \/ ClearAndReload
    \/ ViewContent
    \/ WithContent
    \/ TagContent
    \/ UntagContent

-----------------------------------------------------------------------------
(* metadata.py: the Meta wrapper's derived attributes *)

\* RTL_LANGS without its last entry
RTL_LANGS_shortened == {"'ar'", "'he'", "'ur'", "'yi'", "'ji'", "'iw'"}

RTL_LANGS == {"'ar'", "'he'", "'ur'", "'yi'", "'ji'", "'iw'", "'fa'"}

\* dict.get(k): None when the key is missing
Get(d, k) == IF k \in DOMAIN d THEN d[k] ELSE None

\* the truth value Python gives a value in a condition
Truthy(v) == v \notin {"None", "False", "0", "''"}

\* repr of a bool
Bool(b) == IF b THEN "True" ELSE "False"

\* Meta.lang
lang(fields) == Get(fields, "language")

\* Meta.rtl
rtl(fields) == Bool(lang(fields) \in RTL_LANGS)

\* Meta.label with the is_sponsored test ahead of the archive test
label_sponsored_first(fields) ==
    IF Truthy(Get(fields, "is_sponsored")) THEN "'sponsored'"
    ELSE IF Get(fields, "archive") = "'core'" THEN "'core'"
    ELSE IF Truthy(Get(fields, "is_partner")) THEN "'partner'"
    ELSE "'core'"

\* Meta.label
label(fields) ==
    IF Get(fields, "archive") = "'core'" THEN "'core'"
    ELSE IF Truthy(Get(fields, "is_sponsored")) THEN "'sponsored'"
    ELSE IF Truthy(Get(fields, "is_partner")) THEN "'partner'"
    ELSE "'core'"

\* the outcome of reading an attribute: its value, or the exception raised
Read(value, error) == [value |-> value, error |-> error]

\* Meta.free_license with only ARL counted as non-free
free_license_arl_only(fields) ==
    IF "license" \notin DOMAIN fields THEN Read(None, "AttributeError")
    ELSE Read(Bool(fields["license"] \notin {"'ARL'"}), "")

\* Meta.free_license: self.license goes through __getattr__, which raises
\* AttributeError when the dict has no license key
free_license(fields) ==
    IF "license" \notin DOMAIN fields THEN Read(None, "AttributeError")
    ELSE Read(Bool(fields["license"] \notin {"'ARL'", "'ON'"}), "")

-----------------------------------------------------------------------------
(* Reading and writing the wrapper's keys and attributes *)

\* the languages the model writes: the right-to-left ones, one other and
\* the empty language
Languages ==
    {"'ar'", "'he'", "'ur'", "'yi'", "'ji'", "'iw'", "'fa'", "'en'", "''"}

\* the keys the derived attributes read, and the values the model writes
WrittenValues ==
    [language     |-> Languages,
     license      |-> {None, "'ARL'", "'ON'", "'GFDL'"},
     archive      |-> {"'core'", "'ephem'"},
     is_sponsored |-> {"True", "False"},
     is_partner   |-> {"True", "False"}]

\* the dicts the model hands to Meta.__init__
ConstructedDicts ==
    {EmptyDict,
     [language |-> "'en'", license |-> "'GFDL'"],
     [language |-> "'ar'", license |-> "'ARL'", archive |-> "'core'",
      is_sponsored |-> "False", is_partner |-> "False"]}

Access(attr, value, error, steps) ==
    [attr |-> attr, value |-> value, error |-> error, steps |-> steps]

NoAccess == Access("none", None, "", <<>>)

\* a wrapper just made of one of the dicts, with nothing on disk
WrapperInit ==
    /\ input = [utf8 |-> FALSE, ascii |-> FALSE, json |-> FALSE, doc |-> EmptyDict]
    /\ call = "none"
    /\ result = Outcome("none", EmptyDict, "", <<>>)
    /\ zipballs = {}
    /\ tags = {}
    /\ taggings = {}
    /\ wrapped = NoMeta
    /\ last = NoCall
    /\ undo = NoUndo
    /\ constructed \in ConstructedDicts
    /\ self_meta = constructed
    /\ self_image = None
    /\ self_zip_path = None
    /\ cover_dir = [files |-> {}, state |-> "ok"]
    /\ zipfile = [state |-> "missing", names |-> <<>>]
    /\ access = NoAccess
    /\ setup_path = "/en/setup/"
    /\ setup_file = NoFile
    /\ setup_data = EmptyDict
    /\ is_completed = FALSE
    /\ served = NoRequest
    /\ saved = NoSave
    /\ handled = NoCleanup

\* Meta.__setitem__
SetItem ==
    \E k \in DOMAIN WrittenValues :
        \E v \in WrittenValues[k] :
            /\ self_meta' = Put(self_meta, k, v)
            /\ access' = Access("__setitem__", None, "", <<>>)
            /\ UNCHANGED <<metaVars, archiveVars, constructed, self_image,
                           self_zip_path, cover_dir, zipfile, setupVars,
                           handled>>

\* Meta.__delitem__ of a key the dict holds
DelItem ==
    \E k \in DOMAIN self_meta :
        /\ self_meta' = Pop(self_meta, k)
        /\ access' = Access("__delitem__", None, "", <<>>)
        /\ UNCHANGED <<metaVars, archiveVars, constructed, self_image,
                       self_zip_path, cover_dir, zipfile, setupVars, handled>>

ReadRtl ==
    /\ access' = Access("rtl", rtl(self_meta), "", <<>>)
    /\ UNCHANGED <<metaVars, archiveVars, self_meta, constructed, self_image,
                   self_zip_path, cover_dir, zipfile, setupVars, handled>>

ReadLabel ==
    /\ access' = Access("label", label(self_meta), "", <<>>)
    /\ UNCHANGED <<metaVars, archiveVars, self_meta, constructed, self_image,
                   self_zip_path, cover_dir, zipfile, setupVars, handled>>

ReadFreeLicense ==
    /\ LET r == free_license(self_meta)
       IN  access' = Access("free_license", r.value, r.error, <<>>)
    /\ UNCHANGED <<metaVars, archiveVars, self_meta, constructed, self_image,
                   self_zip_path, cover_dir, zipfile, setupVars, handled>>

WrapperNext == SetItem \/ DelItem \/ ReadRtl \/ ReadLabel \/ ReadFreeLicense

-----------------------------------------------------------------------------
(* metadata.py: the cover image of a Meta wrapper *)

IMAGE_EXTENSIONS == {".png", ".gif", ".jpg", ".jpeg"}

\* the names the members of a zip file have in the model
MemberNames == {"index.html", "cover.PNG", "img/b.jpeg"}

\* os.path.splitext(name)[1].lower()
Extension(member) ==
    CASE member = "index.html" -> ".html"
      [] member = "cover.PNG"  -> ".png"
      [] member = "img/b.jpeg" -> ".jpeg"

\* the file at zip_path: it cannot be opened ("missing"), it opens and is no
\* zip archive ("corrupt"), or it is a zip archive with these members
ZipFiles ==
    {[state |-> st, names |-> <<>>] : st \in {"missing", "corrupt"}}
        \cup {[state |-> "ok", names |-> ns] :
                ns \in UNION {[1..n -> MemberNames] : n \in 0..MaxMembers}}

\* zip_path: None, a path, or a value that is no string
ZipPaths == {None, "'content.zip'", "7"}

IsString(v) == v = "'content.zip'"

\* '%s%s' % (self.md5, ext) for the record with md5 'md5'
CoverName(ext) == "md5" \o ext

\* the cover directory: the files matching '<md5>.*', and whether a file can
\* be written: "denied" fails in open, "full" in write after open made the file
CoverDirs ==
    [files : SUBSET {CoverName(".png"), CoverName(".jpg")},
     state : {"ok", "denied", "full"}]

\* what extract_image returns, or the exception it raises
Extracted(extension, content, error) ==
    [extension |-> extension, content |-> content, error |-> error]

RECURSIVE first_image(_, _)
\* the loop over z.namelist() from position i on
first_image(members, i) ==
    IF i > Len(members) THEN Extracted(None, None, "")
    ELSE IF Extension(members[i]) \in IMAGE_EXTENSIONS
    THEN Extracted(Extension(members[i]), "bytes of " \o members[i], "")
    ELSE first_image(members, i + 1)

\* Meta.extract_image under Python 2: open raises TypeError on a path that is
\* no string and IOError on a file it cannot open (IOError is no OSError
\* there); zipfile.ZipFile raises BadZipfile on a file that is no zip archive
extract_image(zip_path, zf) ==
    IF ~IsString(zip_path) THEN Extracted(None, None, "TypeError")
    ELSE IF zf.state = "missing" THEN Extracted(None, None, "IOError")
    ELSE IF zf.state = "corrupt" THEN Extracted(None, None, "BadZipfile")
    ELSE first_image(zf.names, 1)

\* what cache_cover leaves in the cover directory, and the file name it
\* returns or the exception it raises
Cached(dir, value, error) == [dir |-> dir, value |-> value, error |-> error]

\* Meta.cache_cover(ext, content): open(cover_path, 'wb') and f.write(content)
\* raise IOError under Python 2
cache_cover(dir, ext, content) ==
    IF dir.state = "denied" THEN Cached(dir, None, "IOError")
    ELSE IF dir.state = "full"
    THEN Cached([dir EXCEPT !.files = @ \cup {CoverName(ext)}], None, "IOError")
    ELSE Cached([dir EXCEPT !.files = @ \cup {CoverName(ext)}], CoverName(ext), "")

\* the values glob.glob(...)[0] can take in get_cover_path: any of the
\* matching files (glob returns them in arbitrary order), None when no file
\* matches
get_cover_path(dir) == IF dir.files = {} THEN {None} ELSE dir.files

\* the outcome of reading Meta.image: the value returned or the exception
\* raised, self._image and the cover directory afterwards, and the calls made
Resolved(value, error, remembered, dir, steps) ==
    [value |-> value, error |-> error, remembered |-> remembered, dir |-> dir,
     steps |-> steps]

\* Meta.image without the test of self._image at its start
image_unremembered(remembered, zip_path, dir, zf, cover) ==
    IF cover # None
    THEN Resolved(cover, "", cover, dir, <<"get_cover_path">>)
    ELSE IF zip_path = None
    THEN Resolved(None, "", remembered, dir, <<"get_cover_path">>)
    ELSE LET e == extract_image(zip_path, zf)
             c == cache_cover(dir, e.extension, e.content)
         IN  IF e.error \in {"TypeError", "OSError"}
             THEN Resolved(None, "", remembered, dir,
                           <<"get_cover_path", "extract_image">>)
             ELSE IF e.error # ""
             THEN Resolved(None, e.error, remembered, dir,
                           <<"get_cover_path", "extract_image">>)
             ELSE IF e.extension = None \/ e.content = None
             THEN Resolved(None, "", remembered, dir,
                           <<"get_cover_path", "extract_image">>)
             ELSE IF c.error = "OSError"
             THEN Resolved(None, "", remembered, c.dir,
                           <<"get_cover_path", "extract_image", "cache_cover">>)
             ELSE IF c.error # ""
             THEN Resolved(None, c.error, remembered, c.dir,
                           <<"get_cover_path", "extract_image", "cache_cover">>)
             ELSE Resolved(c.value, "", c.value, c.dir,
                           <<"get_cover_path", "extract_image", "cache_cover">>)

\* Meta.image; cover is what get_cover_path returns when it is called.  An
\* exception no except clause names leaves the property.
image(remembered, zip_path, dir, zf, cover) ==
    IF remembered # None
    THEN Resolved(remembered, "", remembered, dir, <<>>)
    ELSE IF cover # None
    THEN Resolved(cover, "", cover, dir, <<"get_cover_path">>)
    ELSE IF zip_path = None
    THEN Resolved(None, "", remembered, dir, <<"get_cover_path">>)
    ELSE LET e == extract_image(zip_path, zf)
             c == cache_cover(dir, e.extension, e.content)
         IN  IF e.error \in {"TypeError", "OSError"}
             THEN Resolved(None, "", remembered, dir,
                           <<"get_cover_path", "extract_image">>)
             ELSE IF e.error # ""
             THEN Resolved(None, e.error, remembered, dir,
                           <<"get_cover_path", "extract_image">>)
             ELSE IF e.extension = None \/ e.content = None
             THEN Resolved(None, "", remembered, dir,
                           <<"get_cover_path", "extract_image">>)
             ELSE IF c.error = "OSError"
             THEN Resolved(None, "", remembered, c.dir,
                           <<"get_cover_path", "extract_image", "cache_cover">>)
             ELSE IF c.error # ""
             THEN Resolved(None, c.error, remembered, c.dir,
                           <<"get_cover_path", "extract_image", "cache_cover">>)
             ELSE Resolved(c.value, "", c.value, c.dir,
                           <<"get_cover_path", "extract_image", "cache_cover">>)

\* a wrapper just made of the record with md5 'md5', with any zip file and
\* cover directory
ImageInit ==
    /\ input = [utf8 |-> FALSE, ascii |-> FALSE, json |-> FALSE, doc |-> EmptyDict]
    /\ call = "none"
    /\ result = Outcome("none", EmptyDict, "", <<>>)
    /\ zipballs = {}
    /\ tags = {}
    /\ taggings = {}
    /\ wrapped = NoMeta
    /\ last = NoCall
    /\ undo = NoUndo
    /\ constructed = [md5 |-> "'md5'"]
    /\ self_meta = constructed
    /\ self_image = None
    /\ self_zip_path \in ZipPaths
    /\ cover_dir \in CoverDirs
    /\ zipfile \in ZipFiles
    /\ access = NoAccess
    /\ setup_path = "/en/setup/"
    /\ setup_file = NoFile
    /\ setup_data = EmptyDict
    /\ is_completed = FALSE
    /\ served = NoRequest
    /\ saved = NoSave
    /\ handled = NoCleanup

\* Meta.__init__: another wrapper of the same record, for a later request
Construct ==
    /\ self_image' = None
    /\ self_zip_path' \in ZipPaths
    /\ access' = Access("__init__", None, "", <<>>)
    /\ UNCHANGED <<metaVars, archiveVars, self_meta, constructed, cover_dir,
                   zipfile, setupVars, handled>>

ReadImage ==
    \E cover \in get_cover_path(cover_dir) :
        LET r == image(self_image, self_zip_path, cover_dir, zipfile, cover)
        IN  /\ self_image' = r.remembered
            /\ cover_dir' = r.dir
            /\ access' = Access("image", r.value, r.error, r.steps)
            /\ UNCHANGED <<metaVars, archiveVars, self_meta, constructed,
                           self_zip_path, zipfile, setupVars, handled>>

ImageNext == Construct \/ ReadImage

-----------------------------------------------------------------------------
(* setup.py: the setup file, the Setup object and the setup plugin *)

\* the locales a request may carry in request.locale
Locales == {"en", "fr", "pt_BR"}

\* the path of the setup page below the locale prefix
SetupRoute == "/setup/"

\* request.path, which holds no locale prefix
RequestPaths == {"/setup/", "/", "/downloads/"}

\* the paths setup_plugin may be handed: the setup page under a locale
SetupPaths == {"/" \o loc \o SetupRoute : loc \in Locales}

\* a file json.load fails on: empty, cut short, or no JSON at all
Corrupt == [state |-> "corrupt", data |-> EmptyDict]

\* a file holding the JSON object data
Json(data) == [state |-> "json", data |-> data]

\* the objects a setup file holds or a setup form submits
SetupDicts ==
    {[k \in s |-> IF k = "completed" THEN "True" ELSE "'UTC'"] :
        s \in SUBSET {"completed", "timezone"}}

SetupFiles == {NoFile, Corrupt} \cup {Json(data) : data \in SetupDicts}

\* the dict new_data of a Setup.save call
NewData ==
    {[k \in s |-> "'fr'"] : s \in SUBSET {"language"}}

\* Setup.load(): none says that the method returned None
load(file) ==
    IF file.state = "json" THEN [none |-> FALSE, data |-> file.data]
    ELSE [none |-> TRUE, data |-> EmptyDict]

\* Setup.auto_configure(), with one configurator registered
auto_configure == [k \in {"session.secret"} |-> "'secret'"]

\* Setup.__init__(setup_file)
Setup(file) ==
    LET loaded == load(file)
    IN  [data |-> IF loaded.none THEN auto_configure ELSE loaded.data,
         is_completed |-> ~loaded.none /\ "completed" \in DOMAIN loaded.data]

\* Setup.append(new_data); fail names the statement that raises: 1 the
\* open() of the file, 2 json.dump into the opened (and so emptied) file,
\* 0 none
append(data, file, new_data, fail) ==
    LET updated == DictUpdate(data, new_data)
    IN  [data |-> updated,
         file |-> IF fail = 1 THEN file
                  ELSE IF fail = 2 THEN Corrupt
                  ELSE Json(updated),
         raised |-> fail # 0]

\* Setup.save(new_data)
save(data, completed, file, new_data, fail) ==
    LET appended == append(data, file, Put(new_data, "completed", "True"), fail)
    IN  [data |-> appended.data,
         file |-> appended.file,
         is_completed |-> IF appended.raised THEN completed ELSE TRUE,
         raised |-> appended.raised]

\* text[n:]
SliceFrom(text, n) == SubSeq(text, n + 1, Len(text))

\* the wrapper of setup_plugin that redirects whatever the path is
setup_plugin_any_path(path_arg, completed, locale, path) ==
    IF ~completed
    THEN Served(locale, path, completed, "redirect", path_arg)
    ELSE Served(locale, path, completed, "callback", "")

\* the wrapper setup_plugin puts around a handler: redirect(setup_path)
\* raises the redirect response, so the callback is not called then
setup_plugin(path_arg, completed, locale, path) ==
    IF ~completed /\ path # SliceFrom(path_arg, Len(locale) + 1)
    THEN Served(locale, path, completed, "redirect", path_arg)
    ELSE Served(locale, path, completed, "callback", "")

\* the application with its Setup object constructed and the plugin installed
SetupInit ==
    /\ input = [utf8 |-> FALSE, ascii |-> FALSE, json |-> FALSE, doc |-> EmptyDict]
    /\ call = "none"
    /\ result = Outcome("none", EmptyDict, "", <<>>)
    /\ zipballs = {}
    /\ tags = {}
    /\ taggings = {}
    /\ wrapped = NoMeta
    /\ last = NoCall
    /\ undo = NoUndo
    /\ self_meta = EmptyDict
    /\ constructed = EmptyDict
    /\ self_image = None
    /\ self_zip_path = None
    /\ cover_dir = [files |-> {}, state |-> "ok"]
    /\ zipfile = [state |-> "missing", names |-> <<>>]
    /\ access = NoAccess
    /\ setup_path \in SetupPaths
    /\ setup_file \in SetupFiles
    /\ setup_data = Setup(setup_file).data
    /\ is_completed = Setup(setup_file).is_completed
    /\ served = NoRequest
    /\ saved = NoSave
    /\ handled = NoCleanup

\* a request passes through the wrapper of the plugin
Request ==
    \E locale \in Locales, path \in RequestPaths :
        /\ served' = setup_plugin(setup_path, is_completed, locale, path)
        /\ UNCHANGED <<setup_path, setup_file, setup_data, is_completed, saved,
                       handled, metaVars, archiveVars, wrapperVars>>

\* the setup page calls Setup.save
Save ==
    \E new_data \in NewData, fail \in 0..2 :
        LET r == save(setup_data, is_completed, setup_file, new_data, fail)
        IN  /\ setup_data' = r.data
            /\ setup_file' = r.file
            /\ is_completed' = r.is_completed
            /\ saved' = [ended |-> IF r.raised THEN "raised" ELSE "returned",
                         once |-> saved.once \/ ~r.raised]
            /\ UNCHANGED <<setup_path, served, handled, metaVars, archiveVars,
                           wrapperVars>>

SetupNext == Request \/ Save

-----------------------------------------------------------------------------
(* plugins/diskspace/plugin.py: the cleanup handler *)

\* the form holds no field 'action'
Missing == "<missing>"

\* what a form may submit as its action
FormActions == {Missing, "check", "delete", "purge"}

\* what a form may submit as its selection: md5s of content, and an md5 no
\* content has
Selections == SUBSET (Md5s \cup {"m9"})

\* archive.cleanup_list(): the content records that may be deleted
cleanup_list(db) == db.zipballs

\* archive.remove_from_archive(hashes): the hashes whose files cannot be
\* removed come back as errors, the records of the others are deleted
remove_from_archive(db, hashes, failing) ==
    LET errors  == hashes \cap failing
        success == hashes \ errors
    IN  [db |-> remove_meta_from_db(db, success, 0).db,
         success |-> success,
         errors |-> errors]

\* what cleanup() leaves behind after a delete
Deleted(db, submitted, selection, listed, hashes, r) ==
    [db  |-> r.db,
     out |-> Cleaned(submitted, selection, listed, TRUE, hashes, r.errors,
                     {z.md5 : z \in db.zipballs} \ {z.md5 : z \in r.db.zipballs},
                     IF hashes # {} /\ r.errors = {} THEN "redirect /"
                     ELSE "cleanup page",
                     IF hashes # {} /\ r.errors = {} THEN ""
                     ELSE IF r.errors # {} THEN "Some files could not be removed"
                     ELSE "Nothing to delete")]

\* cleanup() that hands the submitted selection to remove_from_archive
\* without looking it up in the cleanup list
cleanup_unfiltered(db, submitted, selection, failing) ==
    LET action   == IF submitted = Missing THEN "check" ELSE submitted
        metadata == cleanup_list(db)
        listed   == {z.md5 : z \in metadata}
    IN  IF action \notin {"check", "delete"}
        THEN [db |-> db,
              out |-> Cleaned(submitted, selection, {}, FALSE, {}, {}, {},
                              "abort 400", "Invalid request")]
        ELSE IF action = "check"
        THEN [db |-> db,
              out |-> Cleaned(submitted, selection, listed, FALSE, {}, {}, {},
                              "cleanup page",
                              IF selection = {} THEN "No content selected"
                              ELSE "can be freed by removing selected content")]
        ELSE Deleted(db, submitted, selection, listed, selection,
                     remove_from_archive(db, selection, failing))

\* cleanup(): submitted and selection are the form's fields 'action' and
\* 'selection', failing the md5s whose files cannot be removed
cleanup(db, submitted, selection, failing) ==
    LET action   == IF submitted = Missing THEN "check" ELSE submitted
        metadata == cleanup_list(db)
        listed   == {z.md5 : z \in metadata}
        selected == {z \in metadata : z.md5 \in selection}
        hashes   == {z.md5 : z \in selected}
    IN  IF action \notin {"check", "delete"}
        THEN [db |-> db,
              out |-> Cleaned(submitted, selection, {}, FALSE, {}, {}, {},
                              "abort 400", "Invalid request")]
        ELSE IF action = "check"
        THEN [db |-> db,
              out |-> Cleaned(submitted, selection, listed, FALSE, {}, {}, {},
                              "cleanup page",
                              IF selected = {} THEN "No content selected"
                              ELSE "can be freed by removing selected content")]
        ELSE Deleted(db, submitted, selection, listed, hashes,
                     remove_from_archive(db, hashes, failing))

\* a POST to /cleanup/
Cleanup ==
    \E submitted \in FormActions, selection \in Selections,
       failing \in SUBSET Md5s :
        /\ submitted # "delete" => failing = {}
        /\ LET r == cleanup(Database(zipballs, tags, taggings), submitted,
                            selection, failing)
           IN  /\ zipballs' = r.db.zipballs
               /\ tags' = r.db.tags
               /\ taggings' = r.db.taggings
               /\ handled' = r.out
        /\ UNCHANGED <<wrapped, last, undo, metaVars, wrapperVars, setupVars>>

CleanupNext == IndexContent \/ Cleanup

-----------------------------------------------------------------------------
(* The specifications *)

\* the metadata calls
SpecMeta == MetaInit /\ [][MetaNext]_vars

\* indexing and viewing content
SpecArchive == ArchiveInit /\ [][ArchiveNext]_vars

\* tagging content
SpecTags == ArchiveInit /\ [][TagsNext]_vars

\* the index under all its operations
SpecIndex == ArchiveInit /\ [][IndexNext]_vars

\* reading the derived attributes of a wrapper while its keys are written
SpecWrapper == WrapperInit /\ [][WrapperNext]_vars

\* reading the cover image of the wrappers of one record
SpecImage == ImageInit /\ [][ImageNext]_vars

\* indexing content and cleaning it up
SpecCleanup == ArchiveInit /\ [][CleanupNext]_vars

\* the setup plugin and Setup.save, from any setup file and setup path
SpecSetup == SetupInit /\ [][SetupNext]_vars

-----------------------------------------------------------------------------
(* Claims about the metadata normaliser, checked under SpecMeta *)

Converted == call = "convert_json" /\ result.status = "ok"

\* the input of the call is JSON text: bytes that decode and parse
IsJson(raw) == raw.utf8 /\ raw.json

AliasesOf(key) == {get_aliases_for(key)[j] : j \in 1..Len(get_aliases_for(key))}

\* C1: convert_json on JSON input that omits a required field raises
\* FormatError, and a record convert_json returns holds all four required
\* fields.
C1_MissingRequiredIsFormatError ==
    call = "convert_json" =>
        /\ \A key \in REQUIRED_KEYS :
              (IsJson(input) /\ key \notin DOMAIN input.doc)
                  => result.status = "FormatError"
        /\ result.status = "ok" => REQUIRED_KEYS \subseteq DOMAIN result.meta

\* the declared default of an optional field, read off the specification:
\* the static value, or for broadcast the date of the record's timestamp
DeclaredDefault(key, doc) ==
    IF key = "broadcast" THEN ParseDate(doc["timestamp"])
    ELSE META_SPECIFICATION[key].default

OptionalFields == STANDARD_FIELDS \ REQUIRED_KEYS

\* C2 as stated: every optional field the input omits holds its declared
\* default in the record convert_json returns.
C2_OmittedOptionalHoldsDefault ==
    Converted =>
        \A key \in OptionalFields :
            key \notin DOMAIN input.doc
                => result.meta[key] = DeclaredDefault(key, input.doc)

\* C2 as amended: every optional field the input omits, and holds no alias
\* of, holds its declared default in the record convert_json returns.
C2_OmittedUnaliasedOptionalHoldsDefault ==
    Converted =>
        \A key \in OptionalFields :
            (key \notin DOMAIN input.doc /\ AliasesOf(key) \cap DOMAIN input.doc = {})
                => /\ key \in DOMAIN result.meta
                   /\ result.meta[key] = DeclaredDefault(key, input.doc)

\* convert_json returned a record for an input that left out a static and
\* the computed default
C2_Witness ==
    /\ Converted
    /\ {"broadcast", "language", "publisher"} \cap DOMAIN input.doc = {}
    /\ "partner" \notin DOMAIN input.doc
    /\ result.meta["broadcast"] = "date(2015, 3, 1)"

\* the canonical keys whose alias replace_aliases moves on this document
Replaced(doc) ==
    {key \in STANDARD_FIELDS :
        key \notin DOMAIN doc /\ AliasesOf(key) \cap DOMAIN doc # {}}

\* C3: when the input holds a legacy key and not its canonical key, after
\* replace_aliases the canonical key holds the legacy key's value, the legacy
\* key is gone, and the keys no replacement touches are as they were.
C3_AliasReplaced ==
    call = "replace_aliases" =>
        /\ \A key \in Replaced(input.doc) :
              \A alias \in AliasesOf(key) \cap DOMAIN input.doc :
                  /\ key \in DOMAIN result.meta
                  /\ result.meta[key] = input.doc[alias]
                  /\ alias \notin DOMAIN result.meta
        /\ LET touched == Replaced(input.doc)
                             \cup UNION {AliasesOf(key) : key \in Replaced(input.doc)}
           IN  /\ (DOMAIN result.meta) \ touched = (DOMAIN input.doc) \ touched
               /\ \A k \in (DOMAIN input.doc) \ touched :
                     result.meta[k] = input.doc[k]

\* replace_aliases ran on a document holding both legacy keys and neither
\* canonical key, next to other keys
C3_Witness ==
    /\ call = "replace_aliases"
    /\ {"partner", "index", "url", "foo"} \subseteq DOMAIN input.doc
    /\ {"publisher", "entry_point"} \cap DOMAIN input.doc = {}
    /\ result.meta["publisher"] = "'in-partner'"

\* C9: every key of a record convert_json returns is a field of the
\* specification.
C9_OnlySpecificationKeys ==
    Converted => DOMAIN result.meta \subseteq SpecKeys

\* C10: convert_json fails with DecodeError when the bytes are not UTF-8 or
\* the text is not JSON, before alias replacement, the required-field check
\* and default filling.
C10_UndecodableIsDecodeError ==
    (call = "convert_json" /\ ~IsJson(input)) =>
        /\ result.status = "DecodeError"
        /\ \A i \in 1..Len(result.steps) :
              result.steps[i] \notin {"replace_aliases", "required", "add_missing_keys"}

\* the document omits broadcast, whose default cannot be computed from the
\* timestamp the document holds (or does not hold)
DefaultRaises(doc) ==
    /\ "broadcast" \notin DOMAIN doc
    /\ default_broadcast("broadcast", doc) = Raised

\* C11: when the JSON input holds all required fields and computing the
\* default of a missing optional field raises, convert_json fails with
\* DecodeError.
C11_DefaultFailureIsDecodeError ==
    (/\ call = "convert_json"
     /\ IsJson(input)
     /\ REQUIRED_KEYS \subseteq DOMAIN input.doc
     /\ DefaultRaises(input.doc))
        => result.status = "DecodeError"

\* the steps of convert_json in the order the code runs them
StatedOrder ==
    <<"decode", "str", "loads", "replace_aliases", "required", "add_missing_keys">>

\* C20: convert_json runs decode, alias replacement, the required-field check
\* and default filling in this order, so that (a) a record is returned only
\* when the input itself holds every required field, and (b) a JSON input
\* that lacks a required field and whose broadcast default cannot be computed
\* fails with FormatError.
C20_StepsInStatedOrder ==
    call = "convert_json" =>
        /\ Len(result.steps) <= Len(StatedOrder)
        /\ \A i \in 1..Len(result.steps) : result.steps[i] = StatedOrder[i]
        /\ result.status = "ok" => REQUIRED_KEYS \subseteq DOMAIN input.doc
        /\ (/\ IsJson(input)
            /\ ~(REQUIRED_KEYS \subseteq DOMAIN input.doc)
            /\ DefaultRaises(input.doc))
               => result.status = "FormatError"

\* the keys of the input are keys of the result, with the values they had
InputKept ==
    \A k \in DOMAIN input.doc :
        k \in DOMAIN result.meta /\ result.meta[k] = input.doc[k]

\* C21 as stated: for any input dict, add_missing_keys returns, and after it
\* every standard field is a key and every key that was there before is
\* still there with its value.
C21_OnlyAddsForAnyInput ==
    call = "add_missing_keys" =>
        /\ result.status = "ok"
        /\ STANDARD_FIELDS \subseteq DOMAIN result.meta
        /\ InputKept

\* C21: add_missing_keys never removes or changes a key that was there
\* before; and when the input holds broadcast, or a timestamp a date can be
\* parsed from, it returns, and after it every standard field is a key.
C21_OnlyAddsWhenDefaultComputable ==
    call = "add_missing_keys" =>
        /\ InputKept
        /\ ~DefaultRaises(input.doc) =>
              /\ result.status = "ok"
              /\ STANDARD_FIELDS \subseteq DOMAIN result.meta

\* add_missing_keys returned on a dict that held a non-standard key and a
\* standard one and lacked broadcast and other standard fields
C21_Witness ==
    /\ call = "add_missing_keys"
    /\ result.status = "ok"
    /\ {"foo", "timestamp"} \subseteq DOMAIN input.doc
    /\ {"broadcast", "url", "archive"} \cap DOMAIN input.doc = {}
    /\ result.meta["broadcast"] = "date(2014, 8, 10)"
    /\ result.meta["foo"] = "'in-foo'"

\* the canonical keys the document holds next to one of their aliases
HeldWithAlias(doc) ==
    {key \in STANDARD_FIELDS :
        key \in DOMAIN doc /\ AliasesOf(key) \cap DOMAIN doc # {}}

\* C25: when the input holds a canonical key and its legacy alias,
\* replace_aliases leaves the canonical key's value as it was and leaves the
\* alias key, with its value, in the record.
C25_CanonicalKeptOverAlias ==
    call = "replace_aliases" =>
        \A key \in HeldWithAlias(input.doc) :
            /\ key \in DOMAIN result.meta
            /\ result.meta[key] = input.doc[key]
            /\ \A alias \in AliasesOf(key) \cap DOMAIN input.doc :
                  /\ alias \in DOMAIN result.meta
                  /\ result.meta[alias] = input.doc[alias]

\* replace_aliases ran on a document holding publisher and partner, with
\* different values
C25_Witness ==
    /\ call = "replace_aliases"
    /\ {"publisher", "partner"} \subseteq DOMAIN input.doc
    /\ input.doc["publisher"] # input.doc["partner"]
    /\ result.meta["publisher"] = "'in-publisher'"

-----------------------------------------------------------------------------
(* Claims about indexing and viewing, checked under SpecArchive *)

RowsOf(md5) == {row \in zipballs : row.md5 = md5}

\* the title the last record of the batch with this md5 carries
LastTitle(metadata, md5) ==
    metadata[MaxOf({i \in 1..Len(metadata) : metadata[i].md5 = md5})].title

\* C4: the store holds at most one record per md5, and after add_meta_to_db
\* returns, every md5 it indexed (and did not delete as replaced) has exactly
\* one record, which carries the data of the latest record given for it.
C4_OneRecordPerMd5 ==
    /\ \A r1, r2 \in zipballs : r1.md5 = r2.md5 => r1 = r2
    /\ (last.op = "add_meta_to_db" /\ last.error = "") =>
          \A i \in 1..Len(last.metadata) :
              LET md5 == last.metadata[i].md5
              IN  md5 \notin last.replaced =>
                      /\ Cardinality(RowsOf(md5)) = 1
                      /\ \A row \in RowsOf(md5) :
                            row.title = LastTitle(last.metadata, md5)

\* add_meta_to_db returned after indexing an md5 that was stored before with
\* other data
C4_Witness ==
    /\ last.op = "add_meta_to_db"
    /\ last.error = ""
    /\ last.existing \ last.replaced # {}

C7_InsertAndDeleteAtomic ==
    [][last'.op = "add_meta_to_db" =>
          IF last'.error = ""
          THEN /\ \A i \in 1..Len(last'.metadata) :
                     last'.metadata[i].md5 \notin last'.replaced
                         => \E row \in zipballs' :
                               /\ row.md5 = last'.metadata[i].md5
                               /\ row.title = LastTitle(last'.metadata, row.md5)
               /\ \A row \in zipballs' : row.md5 \notin last'.replaced
          ELSE /\ zipballs' = zipballs
               /\ tags' = tags
               /\ taggings' = taggings]_vars

\* add_meta_to_db raised in the DELETE, after a REPLACE of a record the store
\* does not hold
C7_Witness ==
    /\ last.op = "add_meta_to_db"
    /\ last.error = "DbError"
    /\ last.fail = 2
    /\ \E i \in 1..Len(last.metadata) :
          \A row \in zipballs :
              ~(row.md5 = last.metadata[i].md5 /\ row.title = last.metadata[i].title)

\* C19: add_view of an md5 a record has returns 1 without raising, adds
\* exactly 1 to the view count of that record, and leaves every other field
\* of it, every other record, the tags and the associations as they were.
C19_ViewOfExistingAddsOne ==
    [][(last'.op = "add_view" /\ \E row \in zipballs : row.md5 = last'.md5)
          => (/\ last'.error = ""
              /\ last'.value = 1
              /\ zipballs' =
                    {IF row.md5 = last'.md5
                     THEN [md5 |-> row.md5, title |-> row.title,
                           tags |-> row.tags, views |-> row.views + 1]
                     ELSE row : row \in zipballs}
              /\ tags' = tags
              /\ taggings' = taggings)]_vars

\* add_view returned 1 for a record while another record is stored and has
\* no view
C19_Witness ==
    /\ last.op = "add_view"
    /\ last.error = ""
    /\ last.value = 1
    /\ \E r1, r2 \in zipballs :
          /\ r1.md5 = last.md5
          /\ r1.views = 1
          /\ r2.md5 # last.md5
          /\ r2.views = 0


-----------------------------------------------------------------------------
(* Claims about tagging, checked under SpecTags *)

\* add_tags and then remove_tags of the same tag set have both returned
AddedThenRemoved ==
    last.op = "remove_tags" /\ last.error = "" /\ undo.armed

TaggingsOf(md5) == {g \in taggings : g.md5 = md5}

\* the three tag mappings of the wrapped record are what they were before
\* the add; the persisted text is compared as the tag map it decodes to
TagMappingsRestored ==
    /\ wrapped.tags = undo.meta.tags
    /\ LoadTags(PersistedColumn(zipballs, wrapped.md5)) = LoadTags(undo.column)
    /\ TaggingsOf(wrapped.md5) = undo.taggings

\* C5 as stated: for any tag set, add_tags followed by remove_tags of the
\* same set restores the wrapper's tag map, the persisted tag map and the
\* record's associations.
C5_AddThenRemoveRestores == AddedThenRemoved => TagMappingsRestored

\* the tags added were new to the record: none was in the wrapper's tag map
\* or associated with the record, and the wrapper held the persisted map
AddedTagsWereNew ==
    /\ Names(undo.names) \cap DOMAIN undo.meta.tags = {}
    /\ \A g \in undo.taggings : \A t \in tags :
          t.tag_id = g.tag_id => t.name \notin Names(undo.names)
    /\ LoadTags(undo.column) = undo.meta.tags

\* C5 as amended: for a tag set none of whose tags the record carries
\* already, add_tags followed by remove_tags of the same set restores the
\* wrapper's tag map, the persisted tag map and the record's associations.
C5_AddThenRemoveNewRestores ==
    (AddedThenRemoved /\ AddedTagsWereNew) => TagMappingsRestored

\* a new tag was added to and removed from a record that carries another tag
C5_Witness ==
    /\ AddedThenRemoved
    /\ AddedTagsWereNew
    /\ undo.names # <<>>
    /\ DOMAIN undo.meta.tags # {}
    /\ undo.taggings # {}

\* C8: add_tags and remove_tags are atomic: when a statement of the call
\* raises, no tag row, association or record change of the call is committed.
C8_TagCallsAtomic ==
    [][(last'.op \in {"add_tags", "remove_tags"} /\ last'.error = "DbError")
          => (/\ tags' = tags
              /\ taggings' = taggings
              /\ zipballs' = zipballs)]_vars

PersistedTagPairs(md5) ==
    LET map == LoadTags(PersistedColumn(zipballs, md5))
    IN  {<<n, map[n]>> : n \in DOMAIN map}

\* the (name, tag id) pairs of the tags associated with md5 in taggings
AssociatedTagPairs(md5) ==
    {<<row.name, row.tag_id>> :
        row \in {x \in tags : \E g \in TaggingsOf(md5) : g.tag_id = x.tag_id}}

\* C23: after any sequence of add_tags, remove_tags and add_meta_to_db, for
\* every content record the (name, tag id) pairs of its persisted tag map
\* are exactly the tags associated with its md5 in taggings.
C23_TagMapAgreesWithTaggings ==
    \A row \in zipballs : PersistedTagPairs(row.md5) = AssociatedTagPairs(row.md5)

\* the step is a call of remove_tags with a name the wrapper's map lacks
RemovesUnknownName ==
    /\ last'.op = "remove_tags"
    /\ \E n \in Names(last'.names) : n \notin DOMAIN wrapped.tags

\* the step is a call of add_tags or remove_tags with no tags
EmptyTagCall ==
    /\ last'.op \in {"add_tags", "remove_tags"}
    /\ last'.names = <<>>

TagStateUnchanged ==
    /\ wrapped' = wrapped
    /\ zipballs' = zipballs
    /\ taggings' = taggings
    /\ tags' = tags

\* C24: remove_tags with a name that is not in the content's tag map fails
\* with KeyError and leaves the wrapper's tag map, the persisted tag map and
\* the taggings as they were, also for the names that are in the map; and
\* add_tags or remove_tags with no tags returns and changes nothing.
C24_UnknownOrEmptyChangesNothing ==
    [][/\ RemovesUnknownName => (last'.error = "KeyError" /\ TagStateUnchanged)
       /\ EmptyTagCall => (last'.error = "" /\ TagStateUnchanged)]_vars

\* remove_tags has failed on a list with a name of the map and a name not
\* of it, the content still holding the association of the first
C24_Witness ==
    /\ last.op = "remove_tags"
    /\ last.error = "KeyError"
    /\ \E n \in Names(last.names) : n \notin DOMAIN wrapped.tags
    /\ \E n \in Names(last.names) :
          /\ n \in DOMAIN wrapped.tags
          /\ <<n, wrapped.tags[n]>> \in PersistedTagPairs(wrapped.md5)
          /\ <<n, wrapped.tags[n]>> \in AssociatedTagPairs(wrapped.md5)

-----------------------------------------------------------------------------
(* Claims about the index under all its operations, checked under SpecIndex *)

\* C17: no operation of the index removes a row of table tags: every step
\* leaves each tag row in place, also a tag no association refers to.
C17_TagsNeverDeleted ==
    [][\A t \in tags : t \in tags']_vars

\* content was removed and left a tag that no association refers to
C17_Witness ==
    /\ last.op \in {"remove_meta_from_db", "clear_and_reload"}
    /\ last.error = ""
    /\ \E t \in tags : \A g \in taggings : g.tag_id # t.tag_id

\* C22: after any sequence of add_tags, remove_tags, add_meta_to_db with a
\* replaced list, remove_meta_from_db and clear_and_reload, every row of
\* taggings refers to the md5 of a content record that exists.
C22_TaggingsReferToContent ==
    \A g \in taggings : RowsOf(g.md5) # {}

-----------------------------------------------------------------------------
(* Claims about the wrapper's derived attributes, checked under SpecWrapper *)

\* C12: Meta.rtl is true exactly when the record's language is one of ar, he,
\* ur, yi, ji, iw, fa; it is false for any other language, the empty language
\* and a record with no language key, whatever was written to the key before.
C12_RtlIffRtlLanguage ==
    access.attr = "rtl" =>
        /\ access.error = ""
        /\ access.value = "True" <=>
              /\ "language" \in DOMAIN self_meta
              /\ self_meta["language"] \in
                    {"'ar'", "'he'", "'ur'", "'yi'", "'ji'", "'iw'", "'fa'"}
        /\ access.value \in {"True", "False"}

\* rtl was read as true on a wrapper made without a language key, after the
\* key was written
C12_Witness ==
    /\ access.attr = "rtl"
    /\ access.value = "True"
    /\ "language" \notin DOMAIN constructed
    /\ self_meta["language"] = "'fa'"

\* C13: on a record that has a license key, Meta.free_license is false
\* exactly when the license is ARL or ON, and true for any other value.
C13_FreeLicenseIffNotRestricted ==
    (access.attr = "free_license" /\ "license" \in DOMAIN self_meta) =>
        /\ access.error = ""
        /\ access.value =
              IF self_meta["license"] \in {"'ARL'", "'ON'"} THEN "False"
              ELSE "True"

\* free_license was read as false for license ON
C13_Witness ==
    /\ access.attr = "free_license"
    /\ access.value = "False"
    /\ self_meta["license"] = "'ON'"

IsSet(flag) == flag \in DOMAIN self_meta /\ self_meta[flag] = "True"

\* C14: Meta.label is one of core, sponsored, partner: core whenever archive
\* is core; otherwise sponsored when is_sponsored is set; otherwise partner
\* when is_partner is set; otherwise core.
C14_LabelCorePrecedence ==
    access.attr = "label" =>
        /\ access.error = ""
        /\ access.value \in {"'core'", "'sponsored'", "'partner'"}
        /\ access.value =
              IF "archive" \in DOMAIN self_meta /\ self_meta["archive"] = "'core'"
              THEN "'core'"
              ELSE IF IsSet("is_sponsored") THEN "'sponsored'"
              ELSE IF IsSet("is_partner") THEN "'partner'"
              ELSE "'core'"

\* label was read as core on a core record with both flags set
C14_Witness ==
    /\ access.attr = "label"
    /\ access.value = "'core'"
    /\ "archive" \in DOMAIN self_meta
    /\ self_meta["archive"] = "'core'"
    /\ IsSet("is_sponsored")
    /\ IsSet("is_partner")

-----------------------------------------------------------------------------
(* Claims about the cover image, checked under SpecImage *)

\* the read of Meta.image reaches the archive: nothing is remembered, no
\* cover file is in the cover directory and a zip path is set
ReachesArchive ==
    /\ self_image = None
    /\ cover_dir.files = {}
    /\ self_zip_path # None

\* extracting from the archive fails: the zip file is missing or unreadable
ExtractionFails ==
    /\ ReachesArchive
    /\ (zipfile.state # "ok" \/ self_zip_path # "'content.zip'")

\* the positions of the members with an image extension
ImageMembers ==
    {i \in 1..Len(zipfile.names) :
        Extension(zipfile.names[i]) \in {".png", ".gif", ".jpg", ".jpeg"}}

\* the cover file made of the first member with an image extension
FirstCover ==
    "md5" \o Extension(zipfile.names[
                 CHOOSE i \in ImageMembers : \A j \in ImageMembers : i <= j])

\* writing the extracted cover to the cover directory fails
WriteFails ==
    /\ ReachesArchive
    /\ zipfile.state = "ok"
    /\ self_zip_path = "'content.zip'"
    /\ ImageMembers # {}
    /\ cover_dir.state # "ok"

\* C15: when extracting from the archive fails or writing the cover fails, a
\* read of Meta.image returns None without raising and remembers nothing,
\* and on an extraction failure no cover file is written.
C15_ImageFailuresNonFatal ==
    [][(access'.attr = "image" /\ (ExtractionFails \/ WriteFails))
          => (/\ access'.error = ""
              /\ access'.value = "None"
              /\ self_image' = "None"
              /\ ExtractionFails => cover_dir' = cover_dir)]_vars

\* C16: a read of Meta.image returns the remembered cover without a call;
\* otherwise a cover file of the cover directory, which it remembers, also
\* with no zip path; otherwise, with a zip path, a readable archive and a
\* writable cover directory, the first member with an image extension,
\* written to the cover directory and remembered; otherwise None.
C16_LazyCoverResolution ==
    [][access'.attr = "image" =>
          IF self_image # "None"
          THEN /\ access'.value = self_image
               /\ access'.error = ""
               /\ access'.steps = <<>>
               /\ self_image' = self_image
               /\ cover_dir' = cover_dir
          ELSE IF cover_dir.files # {}
          THEN /\ access'.value \in cover_dir.files
               /\ access'.error = ""
               /\ access'.steps = <<"get_cover_path">>
               /\ self_image' = access'.value
               /\ cover_dir' = cover_dir
          ELSE IF self_zip_path = "None"
          THEN /\ access'.value = "None"
               /\ access'.error = ""
               /\ access'.steps = <<"get_cover_path">>
               /\ self_image' = "None"
               /\ cover_dir' = cover_dir
          ELSE (~ExtractionFails /\ ~WriteFails) =>
                  IF ImageMembers = {}
                  THEN /\ access'.value = "None"
                       /\ access'.error = ""
                       /\ self_image' = "None"
                       /\ cover_dir' = cover_dir
                  ELSE /\ access'.value = FirstCover
                       /\ access'.error = ""
                       /\ access'.steps =
                             <<"get_cover_path", "extract_image", "cache_cover">>
                       /\ self_image' = FirstCover
                       /\ cover_dir'.files = {FirstCover}]_vars

\* the cover was extracted from an archive whose first member is no image,
\* written and remembered
C16_Witness ==
    /\ access.attr = "image"
    /\ access.steps = <<"get_cover_path", "extract_image", "cache_cover">>
    /\ zipfile.names = <<"index.html", "img/b.jpeg">>
    /\ access.value = "md5.jpeg"
    /\ self_image = "md5.jpeg"
    /\ "md5.jpeg" \in cover_dir.files

-----------------------------------------------------------------------------
(* Claims about the setup gate, checked under SpecSetup *)

\* the locale prefix of setup_path is as long as the locale of the request
\* served last
PrefixFitsLocale ==
    Len(setup_path) - Len(SetupRoute) - 1 = Len(served.locale)

\* while setup is not completed a request for another path than the setup
\* page is redirected to setup_path, its handler not being called
GateRedirects ==
    (served.kind # "none" /\ ~served.completed /\ served.path # SetupRoute)
        => (served.kind = "redirect" /\ served.location = setup_path)

\* a completed setup redirects no request
CompletedPasses == served.completed => served.kind = "callback"

\* what holds once Setup.save has written the file
Persisted ==
    /\ is_completed
    /\ setup_file.state = "json"
    /\ "completed" \in DOMAIN setup_file.data
    /\ Setup(setup_file).is_completed

-----------------------------------------------------------------------------
(* Claims about the cleanup handler, checked under SpecCleanup *)

\* the action the handler acts on: 'check' when the form holds none
ActedOn == IF handled.action = Missing THEN "check" ELSE handled.action

\* C27: the cleanup handler calls removal only for action 'delete', and
\* then only with md5s that are in the submitted selection and in the
\* cleanup list, and no other record is deleted; action 'check' (also by
\* default) re-renders the page and any other action is rejected with 400,
\* both without calling removal.  After a delete the handler redirects to
\* the start page exactly when something of the list was selected and
\* removal reported no errors, and otherwise re-renders the cleanup page
\* with a message.
C27_CleanupRemovesOnlySelected ==
    handled.response # "none" =>
        /\ handled.called =>
              /\ ActedOn = "delete"
              /\ handled.hashes \subseteq handled.selection \cap handled.listed
        /\ handled.removed \subseteq handled.hashes
        /\ ActedOn = "check" =>
              (~handled.called /\ handled.response = "cleanup page")
        /\ ActedOn \notin {"check", "delete"} =>
              (~handled.called /\ handled.response = "abort 400")
        /\ ActedOn = "delete" =>
              /\ handled.response = "redirect /"
                    <=> (handled.hashes # {} /\ handled.errors = {})
              /\ handled.response # "redirect /" =>
                    (handled.response = "cleanup page" /\ handled.message # "")

\* a delete of a selection that names a listed record and an md5 that is
\* not in the list has removed the first, left the other listed record,
\* and redirected
C27_Witness ==
    /\ handled.action = "delete"
    /\ handled.selection = {"m1", "m9"}
    /\ handled.listed = {"m1", "m2"}
    /\ handled.removed = {"m1"}
    /\ handled.response = "redirect /"
    /\ {z.md5 : z \in zipballs} = {"m2"}

====
